---- MODULE Spec2Model ----
(***************************************************************************)
(* The credential-gated range-forwarding proxy of the PMTiles viewer       *)
(* (the Express server): the process-wide Token State, the token fetch     *)
(* against the identity endpoint, getValidAccessToken, and the GET         *)
(* /proxy/pmtiles handler with its upstream fetch and body pump.           *)
(*                                                                         *)
(* The runtime is a single-threaded event loop: a handler runs without     *)
(* interruption from one I/O completion to its next outstanding I/O (the   *)
(* axios POST, the upstream fetch, a body-chunk read).  One action of this *)
(* module is one such run.                                                 *)
(*                                                                         *)
(* JavaScript values: a value that may be null/undefined is a sequence of  *)
(* length 0 (absent) or 1 (present); a header bag or a JSON object is a    *)
(* function whose DOMAIN is the set of keys it holds.                      *)
(*                                                                         *)
(* The upstream is any server: it may answer with any status, may send     *)
(* each range-related header, send it empty, or omit it, and a success     *)
(* answer comes with a body stream of zero or more chunks that may break   *)
(* at any read.  Spec runs two request slots over a few request shapes;    *)
(* SpecProxy runs one slot over every shape of request and answer.         *)
(***************************************************************************)
EXTENDS Integers, Sequences, FiniteSets, TLC

VARIABLES
    config,         \* DATABRICKS_CLIENT_ID / _CLIENT_SECRET / _HOST
    now,            \* Date.now(), in milliseconds
    accessToken,    \* let accessToken
    tokenExpiry,    \* let tokenExpiry (the Date's time in ms)
    inflight,       \* tasks whose axios.post to the identity endpoint is outstanding
    hist,           \* history of the identity calls: the one that completed last
                    \* (outcome, task, what fetchDatabricksToken returned), and
                    \* whether any has succeeded since the process started
    pc,             \* where each task is suspended
    inbound,        \* the inbound request a slot is serving
    outReq,         \* the upstream request fetch(url, {headers}) a slot has outstanding
    up,             \* the upstream response a slot is pumping
    nread,          \* body chunks the slot's reader has delivered
    res,            \* the slot's Express response object
    cnt,            \* per request: calls of fetchDatabricksToken, identity POSTs, upstream fetches
    aux             \* the route and response of the last request served by one of the
                    \* synchronous handlers (OPTIONS /proxy/pmtiles, /api/config, /api/health)

vars == <<config, now, accessToken, tokenExpiry, inflight, hist,
          pc, inbound, outReq, up, nread, res, cnt, aux>>

(* ------------------------------ bounds --------------------------------- *)

MaxTicks == 4
MaxChunks == 2

TickMs == 150 * 1000

(* ------------------------- JavaScript values --------------------------- *)

None == <<>>
Some(x) == <<x>>

\* truthiness of a string-or-undefined value: undefined and "" are falsy
Truthy(o) == o # None /\ o[1] # ""

\* truthiness of a list-valued header (Accept): undefined and the empty value are falsy
TruthyList(o) == o # None /\ o[1] # <<>>

\* obj[name] = value on a key/value object
SetKey(obj, name, value) ==
    [k \in DOMAIN obj \cup {name} |-> IF k = name THEN value ELSE obj[k]]

\* headers.get(name): the value, or null
Get(h, name) == IF name \in DOMAIN h THEN Some(h[name]) ELSE None

EmptyObj == [k \in {} |-> ""]

(* ----------------------------- constants ------------------------------- *)

DefaultExpiresIn == 3600
RefreshMarginMs == 5 * 60 * 1000
MinZoom == 0
MaxZoom == 14

Requests == {"r1", "r2"}
Startup == "startup"
Tasks == Requests \cup {Startup}

Tokens == {"tokA", "tokB"}
ExpiresIns == {0, 450}

FullConfig == [clientId |-> Some("id"), clientSecret |-> Some("secret"), host |-> Some("dbc.example")]
Configs ==
    { FullConfig,
      [FullConfig EXCEPT !.clientId = None],
      [FullConfig EXCEPT !.clientSecret = None],
      [FullConfig EXCEPT !.host = None],
      [FullConfig EXCEPT !.host = Some("")] }

\* response.data of a 2xx answer of the identity endpoint
FewTokenData == {[access_token |-> "tokA", expires_in |-> 450]}

TokenData ==
    {[access_token |-> t, expires_in |-> e] : t \in Tokens, e \in ExpiresIns}
    \cup {[access_token |-> t] : t \in Tokens}

(* --------------------------- Token Manager ----------------------------- *)

\* only the host looked at
MissingConfig_HostOnly == ~Truthy(config.host)

\* line 19: some credential variable is unset or empty
MissingConfig ==
    ~Truthy(config.clientId) \/ ~Truthy(config.clientSecret) \/ ~Truthy(config.host)

\* line 44: response.data.expires_in || 3600
ExpiresIn(data) ==
    IF "expires_in" \in DOMAIN data /\ data.expires_in # 0
    THEN data.expires_in
    ELSE DefaultExpiresIn

\* a cache that is never used
NeedsRefresh_Always == TRUE

\* the five-minute margin forgotten
NeedsRefresh_NoMargin ==
    \/ ~Truthy(accessToken)
    \/ tokenExpiry = None
    \/ now > tokenExpiry[1]

\* a refresh skipped while another fetch is outstanding
NeedsRefresh_Exclusive ==
    /\ inflight = {}
    /\ \/ ~Truthy(accessToken)
       \/ tokenExpiry = None
       \/ now > tokenExpiry[1] - RefreshMarginMs

\* line 58: the token is missing, or expires within the next five minutes
NeedsRefresh ==
    \/ ~Truthy(accessToken)
    \/ tokenExpiry = None
    \/ now > tokenExpiry[1] - RefreshMarginMs

(* ------------------------- Express response ---------------------------- *)

\* ends counts the calls that end the response (res.end, res.json)
NewRes ==
    [statusCode |-> 200, headers |-> EmptyObj, headersSent |-> FALSE,
     wireStatus |-> None, written |-> <<>>, json |-> None, ended |-> FALSE,
     ends |-> 0]

ResStatus(r, code) == [r EXCEPT !.statusCode = code]
ResSet(r, name, value) == [r EXCEPT !.headers = SetKey(r.headers, name, value)]

\* the status line goes out with the first write or with end
Flush(r) ==
    IF r.headersSent THEN r
    ELSE [r EXCEPT !.headersSent = TRUE, !.wireStatus = Some(r.statusCode)]

ResWrite(r, chunk) == [Flush(r) EXCEPT !.written = Append(r.written, chunk)]
ResEnd(r) == [Flush(r) EXCEPT !.ended = TRUE, !.ends = @ + 1]
ResJson(r, obj) == [Flush(r) EXCEPT !.json = Some(obj), !.ended = TRUE, !.ends = @ + 1]

Err400 == [error |-> "URL parameter required"]
Err500 == [error |-> "Failed to fetch PMTiles file"]

(* ----------------------- inputs of the environment --------------------- *)

\* decodeURIComponent on the URLs the model feeds in; a malformed escape throws
\* and the handler keeps the raw value (lines 87-92)
Decode(u) ==
    CASE u = "https%3A%2F%2Fh%2Ff.pmtiles" -> "https://h/f.pmtiles"
      [] OTHER -> u

Inbound(url, range, accept) == [url |-> url, range |-> range, accept |-> accept]

Urls == {None, Some(""), Some("https%3A%2F%2Fh%2Ff.pmtiles"), Some("%E0%A4%A")}
Ranges == {None, Some(""), Some("bytes=0-99")}
Accepts == {None, Some(<<>>), Some(<<"*/*">>), Some(<<"text/html", "application/json">>)}

AllInbounds == {Inbound(u, g, a) : u \in Urls, g \in Ranges, a \in Accepts}

\* the requests of the concurrent specification: one of each shape
FewInbounds ==
    { Inbound(None, Some("bytes=0-99"), None),
      Inbound(Some("https%3A%2F%2Fh%2Ff.pmtiles"), None, Some(<<"application/json">>)),
      Inbound(Some("https%3A%2F%2Fh%2Ff.pmtiles"), Some("bytes=0-99"), Some(<<"*/*">>)) }

Body(n) == [i \in 1..n |-> i]
Bodies == {Body(n) : n \in 0..MaxChunks}

\* every choice of present/empty/absent for the three range-related headers
RangeHeaderBags ==
    { [k \in S |-> IF k \in E THEN ""
                   ELSE CASE k = "content-range" -> "bytes 0-99/1000"
                          [] k = "content-length" -> "100"
                          [] OTHER -> "bytes"] :
        S \in SUBSET {"content-range", "content-length", "accept-ranges"},
        E \in SUBSET {"content-range", "content-length", "accept-ranges"} }

Upstream(status, headers, body) == [status |-> status, headers |-> headers, body |-> body]

AllUpstreams ==
    {Upstream(s, h, b) : s \in {200, 203, 206}, h \in RangeHeaderBags, b \in Bodies}
    \cup {Upstream(s, EmptyObj, <<>>) : s \in {403, 500}}

FewUpstreams ==
    { Upstream(206, [k \in {"content-range"} |-> "v"], Body(1)),
      Upstream(500, EmptyObj, <<>>) }

(* ------------------------ GET /proxy/pmtiles --------------------------- *)

\* the Range header not looked at
IsTileJsonRequest_IgnoresRange(inb) ==
    /\ TruthyList(inb.accept)
    /\ \E i \in 1..Len(inb.accept[1]) : inb.accept[1][i] = "application/json"

\* line 95
IsTileJsonRequest(inb) ==
    /\ ~Truthy(inb.range)
    /\ TruthyList(inb.accept)
    /\ \E i \in 1..Len(inb.accept[1]) : inb.accept[1][i] = "application/json"

\* lines 99-104
TileJson(url) ==
    [type |-> "vector", tiles |-> <<url>>, minzoom |-> MinZoom, maxzoom |-> MaxZoom]

\* the Range header not forwarded
BuildHeaders_NoRange(authToken, range) ==
    LET h0 == [k \in {"User-Agent"} |-> "PMTiles-Viewer/1.0"]
    IN  IF Truthy(authToken)
        THEN SetKey(h0, "Authorization", <<"Bearer", authToken[1]>>)
        ELSE h0

\* the token never attached
BuildHeaders_NoAuth(authToken, range) ==
    LET h0 == [k \in {"User-Agent"} |-> "PMTiles-Viewer/1.0"]
    IN  IF Truthy(range) THEN SetKey(h0, "Range", range[1]) ELSE h0

\* lines 113-129: the headers of the upstream request
BuildHeaders(authToken, range) ==
    LET h0 == [k \in {"User-Agent"} |-> "PMTiles-Viewer/1.0"]
        h1 == IF Truthy(authToken)
              THEN SetKey(h0, "Authorization", <<"Bearer", authToken[1]>>)
              ELSE h0
    IN  IF Truthy(range) THEN SetKey(h1, "Range", range[1]) ELSE h1

\* getValidAccessToken returning what the fetch returned
GetValidResult_OfFetch(fetchResult, cached) == fetchResult

\* an expired token withheld
GetValidResult_FreshOnly(fetchResult, cached) ==
    IF tokenExpiry # None /\ now > tokenExpiry[1] THEN None ELSE cached

\* line 62: getValidAccessToken returns the module-level accessToken, whatever
\* the fetch it awaited returned
GetValidResult(fetchResult, cached) == cached

\* only server errors treated as failures
Ok_Below500(status) == status < 500

\* line 135: response.ok
Ok(status) == 200 =< status /\ status =< 299

\* lines 141-144
SetFixedHeaders(r) ==
    ResSet(ResSet(ResSet(ResSet(r,
        "Content-Type", "application/octet-stream"),
        "Access-Control-Allow-Origin", "*"),
        "Access-Control-Allow-Methods", "GET, HEAD, OPTIONS"),
        "Access-Control-Allow-Headers", "Range, Authorization")

\* lines 147-155: one "if (response.headers.get(x)) res.set(X, ...)"
CopyHeader(r, h, from, to) ==
    IF Truthy(Get(h, from)) THEN ResSet(r, to, Get(h, from)[1]) ELSE r

\* Content-Length left out
CopyRangeHeaders_NoLength(r, h) ==
    CopyHeader(CopyHeader(r,
        h, "content-range", "Content-Range"),
        h, "accept-ranges", "Accept-Ranges")

CopyRangeHeaders(r, h) ==
    CopyHeader(CopyHeader(CopyHeader(r,
        h, "content-range", "Content-Range"),
        h, "content-length", "Content-Length"),
        h, "accept-ranges", "Accept-Ranges")

\* the upstream status passed through
MirrorStatus_PassThrough(status) == status

\* lines 158-162
MirrorStatus(status) == IF status = 206 THEN 206 ELSE 200

NoHist == [outcome |-> "none", task |-> "none", returned |-> None, everOk |-> FALSE]

NoCalls == [fetchCalls |-> 0, idpPosts |-> 0, upstream |-> 0]

\* lines 119-133: the handler resumes with the token, builds the headers and
\* issues fetch(url, {headers}); c is the slot's call counts so far
ProceedToUpstream(r, authToken, inb, c) ==
    /\ outReq' = [outReq EXCEPT ![r] =
                    Some([url |-> Decode(inb.url[1]),
                          headers |-> BuildHeaders(authToken, inb.range)])]
    /\ cnt' = [cnt EXCEPT ![r] = [c EXCEPT !.upstream = @ + 1]]
    /\ pc' = [pc EXCEPT ![r] = "upstream"]

\* an outer catch that logs the error and returns without answering
FailProxy_LogsOnly(r) ==
    /\ res' = res
    /\ pc' = [pc EXCEPT ![r] = "returned"]
    /\ outReq' = [outReq EXCEPT ![r] = None]
    /\ inbound' = [inbound EXCEPT ![r] = None]

\* lines 182-185: the outer catch.  The upstream request is over and the
\* handler's locals (url, range) are dead.
FailProxy(r) ==
    /\ res' = [res EXCEPT ![r] = ResJson(ResStatus(res[r], 500), Err500)]
    /\ pc' = [pc EXCEPT ![r] = "done"]
    /\ outReq' = [outReq EXCEPT ![r] = None]
    /\ inbound' = [inbound EXCEPT ![r] = None]

\* line 82
UrlMissing(inb) == ~Truthy(inb.url)

\* the status left at its default
Reject400_NoStatus(r) == ResJson(r, Err400)

\* line 83
Reject400(r) == ResJson(ResStatus(r, 400), Err400)

\* lines 77-133, up to the handler's first outstanding I/O
HandleGet(r, inb) ==
    /\ pc[r] = "idle"
    /\ inbound' = [inbound EXCEPT ![r] = Some(inb)]
    /\ UNCHANGED <<up, nread>>
    /\ IF UrlMissing(inb)
       THEN \* lines 82-84
            /\ res' = [res EXCEPT ![r] = Reject400(NewRes)]
            /\ pc' = [pc EXCEPT ![r] = "done"]
            /\ outReq' = [outReq EXCEPT ![r] = None]
            /\ cnt' = [cnt EXCEPT ![r] = NoCalls]
            /\ UNCHANGED inflight
       ELSE IF IsTileJsonRequest(inb)
       THEN \* lines 97-106
            /\ res' = [res EXCEPT ![r] = ResJson(NewRes, TileJson(Decode(inb.url[1])))]
            /\ pc' = [pc EXCEPT ![r] = "done"]
            /\ outReq' = [outReq EXCEPT ![r] = None]
            /\ cnt' = [cnt EXCEPT ![r] = NoCalls]
            /\ UNCHANGED inflight
       ELSE \* line 118: getValidAccessToken()
            /\ res' = [res EXCEPT ![r] = NewRes]
            /\ IF NeedsRefresh
               THEN IF MissingConfig
                    THEN \* fetchDatabricksToken returns null at line 21
                         /\ ProceedToUpstream(r, GetValidResult(None, accessToken), inb,
                                              [NoCalls EXCEPT !.fetchCalls = 1])
                         /\ UNCHANGED inflight
                    ELSE \* line 28: the POST is outstanding
                         /\ inflight' = inflight \cup {r}
                         /\ pc' = [pc EXCEPT ![r] = "token"]
                         /\ outReq' = [outReq EXCEPT ![r] = None]
                         /\ cnt' = [cnt EXCEPT ![r] =
                                      [NoCalls EXCEPT !.fetchCalls = 1, !.idpPosts = 1]]
               ELSE /\ ProceedToUpstream(r, accessToken, inb, NoCalls)
                    /\ UNCHANGED inflight
    /\ UNCHANGED <<aux, config, now, accessToken, tokenExpiry, hist>>

\* lines 42-48: Token State after a 2xx answer carrying data
TokenStateAfterSuccess(data) ==
    <<Some(data.access_token), Some(now + ExpiresIn(data) * 1000)>>

\* a catch that drops the cached token
TokenStateAfterFailure_Clears == <<None, None>>

\* a catch that marks the cached token expired
TokenStateAfterFailure_Expires == <<accessToken, Some(now)>>

\* a catch that forgets the expiry
TokenStateAfterFailure_DropsExpiry == <<accessToken, None>>

\* lines 49-52: Token State after the catch
TokenStateAfterFailure == <<accessToken, tokenExpiry>>

\* The identity endpoint answered task t.  The startup task only logs; a request
\* task resumes getValidAccessToken (line 62) and then the handler (line 119).
TokenAnswered(t, state, fetchResult, outcome) ==
    /\ t \in inflight
    /\ inflight' = inflight \ {t}
    /\ accessToken' = state[1]
    /\ tokenExpiry' = state[2]
    /\ hist' = [outcome |-> outcome, task |-> t, returned |-> fetchResult,
                everOk |-> hist.everOk \/ outcome = "ok"]
    /\ IF t = Startup
       THEN /\ pc' = [pc EXCEPT ![t] = "done"]
            /\ UNCHANGED <<outReq, cnt>>
       ELSE ProceedToUpstream(t, GetValidResult(fetchResult, state[1]), inbound[t][1], cnt[t])
    /\ UNCHANGED <<aux, config, now, inbound, up, nread, res>>

TokenFetchSucceeds(t, data) ==
    TokenAnswered(t, TokenStateAfterSuccess(data), Some(data.access_token), "ok")

\* network error or non-2xx: axios rejects
TokenFetchFails(t) ==
    TokenAnswered(t, TokenStateAfterFailure, None, "fail")

\* lines 133-180: the upstream answered
UpstreamResponds(r, resp) ==
    /\ pc[r] = "upstream"
    /\ IF ~Ok(resp.status)
       THEN /\ FailProxy(r)
            /\ up' = [up EXCEPT ![r] = Some(resp)]
            /\ UNCHANGED nread
       ELSE /\ res' = [res EXCEPT ![r] =
                         ResStatus(CopyRangeHeaders(SetFixedHeaders(res[r]), resp.headers),
                                   MirrorStatus(resp.status))]
            /\ up' = [up EXCEPT ![r] = Some(resp)]
            /\ nread' = [nread EXCEPT ![r] = 0]
            /\ outReq' = [outReq EXCEPT ![r] = None]
            /\ inbound' = [inbound EXCEPT ![r] = None]
            /\ pc' = [pc EXCEPT ![r] = "pump"]
    /\ UNCHANGED <<aux, config, now, accessToken, tokenExpiry, inflight, hist, cnt>>

\* line 133: fetch rejects
UpstreamUnreachable(r) ==
    /\ pc[r] = "upstream"
    /\ FailProxy(r)
    /\ UNCHANGED <<aux, config, now, accessToken, tokenExpiry, inflight, hist,
                   up, nread, cnt>>

\* lines 169-173: reader.read() resolves
ChunkRead(r) ==
    /\ pc[r] = "pump"
    /\ IF nread[r] < Len(up[r][1].body)
       THEN /\ res' = [res EXCEPT ![r] = ResWrite(res[r], up[r][1].body[nread[r] + 1])]
            /\ nread' = [nread EXCEPT ![r] = @ + 1]
            /\ UNCHANGED pc
       ELSE /\ res' = [res EXCEPT ![r] = ResEnd(res[r])]
            /\ pc' = [pc EXCEPT ![r] = "done"]
            /\ UNCHANGED nread
    /\ UNCHANGED <<aux, config, now, accessToken, tokenExpiry, inflight, hist,
                   inbound, outReq, up, cnt>>

\* the pump's error also reaching the handler's outer catch
ChunkReadFails_Rethrows(r) ==
    /\ pc[r] = "pump"
    /\ res' = [res EXCEPT ![r] =
                 ResJson(ResStatus(ResEnd(ResStatus(res[r], 500)), 500), Err500)]
    /\ pc' = [pc EXCEPT ![r] = "done"]
    /\ UNCHANGED <<aux, config, now, accessToken, tokenExpiry, inflight, hist,
                   inbound, outReq, up, nread, cnt>>

\* lines 174-177: reader.read() rejects
ChunkReadFails(r) ==
    /\ pc[r] = "pump"
    /\ res' = [res EXCEPT ![r] = ResEnd(ResStatus(res[r], 500))]
    /\ pc' = [pc EXCEPT ![r] = "done"]
    /\ UNCHANGED <<aux, config, now, accessToken, tokenExpiry, inflight, hist,
                   inbound, outReq, up, nread, cnt>>

\* line 186: the response is complete and the handler's invocation is over;
\* the slot takes the next request
Finish(r) ==
    /\ pc[r] = "done"
    /\ pc' = [pc EXCEPT ![r] = "idle"]
    /\ inbound' = [inbound EXCEPT ![r] = None]
    /\ outReq' = [outReq EXCEPT ![r] = None]
    /\ up' = [up EXCEPT ![r] = None]
    /\ nread' = [nread EXCEPT ![r] = 0]
    /\ res' = [res EXCEPT ![r] = NewRes]
    /\ cnt' = [cnt EXCEPT ![r] = NoCalls]
    /\ UNCHANGED <<aux, config, now, accessToken, tokenExpiry, inflight, hist>>

(* ----------------------- synchronous handlers ------------------------- *)

\* res.sendStatus(code) for code 200: the status, the reason phrase as the body
ResSendStatus(r, code) == ResEnd(ResWrite(ResStatus(r, code), "OK"))

\* the preflight answered without the allow-origin header
OptionsResponse_NoOrigin ==
    ResSendStatus(ResSet(ResSet(NewRes,
        "Access-Control-Allow-Methods", "GET, HEAD, OPTIONS"),
        "Access-Control-Allow-Headers", "Range, Authorization"), 200)

\* lines 190-193
OptionsResponse ==
    ResSendStatus(ResSet(ResSet(ResSet(NewRes,
        "Access-Control-Allow-Origin", "*"),
        "Access-Control-Allow-Methods", "GET, HEAD, OPTIONS"),
        "Access-Control-Allow-Headers", "Range, Authorization"), 200)

\* lines 189-194: OPTIONS /proxy/pmtiles
HandleOptions ==
    /\ aux' = Some([route |-> "OPTIONS /proxy/pmtiles", res |-> OptionsResponse])
    /\ UNCHANGED <<config, now, accessToken, tokenExpiry, inflight, hist,
                   pc, inbound, outReq, up, nread, res, cnt>>

\* `${x}` in a template literal
Str(o) == IF o = None THEN "undefined" ELSE o[1]

\* req.query of /api/config: filePath and sourceLayer
ConfigQueries == {<<None, None>>, <<Some("/Volumes/c/s/v/f.pmtiles"), Some("layer")>>}

\* lines 205-217: the string pieces stand for their concatenation; JSON drops
\* a key whose value is undefined
ConfigJson(filePath, sourceLayer) ==
    LET ucUrl == <<"https://", Str(config.host), "/api/2.0/fs/files", Str(filePath)>>
        proxyUrl == <<"/proxy/pmtiles?url=", <<"encodeURIComponent", ucUrl>>>>
        base == [pmtilesUrl |-> proxyUrl,
                 baseMapUrl |-> "https://tile.openstreetmap.org/{z}/{x}/{y}.png",
                 zoom |-> 7]
    IN  IF sourceLayer = None THEN base ELSE SetKey(base, "sourceLayer", sourceLayer[1])

\* lines 197-218: GET /api/config
HandleApiConfig(filePath, sourceLayer) ==
    /\ aux' = Some([route |-> "GET /api/config",
                    res |-> ResJson(NewRes, ConfigJson(filePath, sourceLayer))])
    /\ UNCHANGED <<config, now, accessToken, tokenExpiry, inflight, hist,
                   pc, inbound, outReq, up, nread, res, cnt>>

\* lines 221-223: GET /api/health
HandleApiHealth ==
    /\ aux' = Some([route |-> "GET /api/health",
                    res |-> ResJson(NewRes, [status |-> "OK", timestamp |-> <<"ISO", now>>])])
    /\ UNCHANGED <<config, now, accessToken, tokenExpiry, inflight, hist,
                   pc, inbound, outReq, up, nread, res, cnt>>

\* the wall clock advances
Tick ==
    /\ now < MaxTicks * TickMs
    /\ now' = now + TickMs
    /\ UNCHANGED <<aux, config, accessToken, tokenExpiry, inflight, hist,
                   pc, inbound, outReq, up, nread, res, cnt>>

(* --------------------------- specifications ---------------------------- *)

\* lines 9-15 and 66: the module is loaded and the startup fetch is issued
Init ==
    /\ config \in Configs
    /\ now = 0
    /\ accessToken = None
    /\ tokenExpiry = None
    /\ hist = NoHist
    /\ inflight = IF MissingConfig THEN {} ELSE {Startup}
    /\ pc = [t \in Tasks |-> IF t = Startup
                             THEN IF MissingConfig THEN "done" ELSE "token"
                             ELSE "idle"]
    /\ inbound = [r \in Requests |-> None]
    /\ outReq = [r \in Requests |-> None]
    /\ up = [r \in Requests |-> None]
    /\ nread = [r \in Requests |-> 0]
    /\ res = [r \in Requests |-> NewRes]
    /\ cnt = [r \in Requests |-> NoCalls]
    /\ aux = None

\* concurrent requests
Next ==
    \/ \E r \in Requests, inb \in FewInbounds : HandleGet(r, inb)
    \/ \E t \in Tasks, data \in TokenData : TokenFetchSucceeds(t, data)
    \/ \E t \in Tasks : TokenFetchFails(t)
    \/ \E r \in Requests, resp \in FewUpstreams : UpstreamResponds(r, resp)
    \/ \E r \in Requests : UpstreamUnreachable(r)
    \/ \E r \in Requests : ChunkRead(r)
    \/ \E r \in Requests : ChunkReadFails(r)
    \/ \E r \in Requests : Finish(r)
    \/ Tick

Spec == Init /\ [][Next]_vars

\* one request at a time, over every shape of request and of upstream answer
NextProxy ==
    \/ \E inb \in AllInbounds : HandleGet("r1", inb)
    \/ \E t \in Tasks, data \in FewTokenData : TokenFetchSucceeds(t, data)
    \/ \E t \in Tasks : TokenFetchFails(t)
    \/ \E resp \in AllUpstreams : UpstreamResponds("r1", resp)
    \/ UpstreamUnreachable("r1")
    \/ ChunkRead("r1")
    \/ ChunkReadFails("r1")
    \/ Finish("r1")
    \/ Tick

InitProxy == Init /\ config \in {FullConfig, [FullConfig EXCEPT !.host = None]}

SpecProxy == InitProxy /\ [][NextProxy]_vars

\* every route of the server, two concurrent proxy requests
NextRoutes ==
    \/ \E r \in Requests, inb \in FewInbounds : HandleGet(r, inb)
    \/ \E t \in Tasks, data \in FewTokenData : TokenFetchSucceeds(t, data)
    \/ \E t \in Tasks : TokenFetchFails(t)
    \/ \E r \in Requests, resp \in FewUpstreams : UpstreamResponds(r, resp)
    \/ \E r \in Requests : UpstreamUnreachable(r)
    \/ \E r \in Requests : ChunkRead(r)
    \/ \E r \in Requests : ChunkReadFails(r)
    \/ \E r \in Requests : Finish(r)
    \/ HandleOptions
    \/ \E q \in ConfigQueries : HandleApiConfig(q[1], q[2])
    \/ HandleApiHealth
    \/ Tick

SpecRoutes == InitProxy /\ [][NextRoutes]_vars

\* lines 28, 133, 169: the outbound call that request r awaits (the POST to
\* the identity endpoint, the upstream fetch, a read of the body) settles,
\* successfully or not, and the handler runs on from its await
Resolve(r) ==
    \/ \E data \in FewTokenData : TokenFetchSucceeds(r, data)
    \/ TokenFetchFails(r)
    \/ \E resp \in FewUpstreams : UpstreamResponds(r, resp)
    \/ UpstreamUnreachable(r)
    \/ ChunkRead(r)
    \/ ChunkReadFails(r)

\* two concurrent requests over a few shapes of request and answer
NextLive ==
    \/ \E r \in Requests, inb \in FewInbounds : HandleGet(r, inb)
    \/ \E t \in Tasks, data \in FewTokenData : TokenFetchSucceeds(t, data)
    \/ \E t \in Tasks : TokenFetchFails(t)
    \/ \E r \in Requests, resp \in FewUpstreams : UpstreamResponds(r, resp)
    \/ \E r \in Requests : UpstreamUnreachable(r)
    \/ \E r \in Requests : ChunkRead(r)
    \/ \E r \in Requests : ChunkReadFails(r)
    \/ \E r \in Requests : Finish(r)
    \/ Tick

\* The outbound calls of request "r2" always settle; those of request "r1" and
\* of the startup fetch may hang: the code sets no timeout on any of them.
SpecLive == InitProxy /\ [][NextLive]_vars /\ WF_vars(Resolve("r2"))

(* ------------------------------- claims -------------------------------- *)

\* the step in which request r's handler reaches line 118 and calls getValidAccessToken
CallsGetValid(r) == pc[r] = "idle" /\ pc'[r] \in {"token", "upstream"}

\* the step in which the identity endpoint's answer to task t arrives
FetchCompletes(t) == t \in inflight /\ t \notin inflight'

Authorization(r) == Get(outReq[r][1].headers, "Authorization")

\* C1: when getValidAccessToken is called with a cached token whose expiry is
\* more than five minutes ahead, no call of fetchDatabricksToken and no POST to
\* the identity endpoint is made, and the value returned (the one the upstream
\* request carries as its Bearer token) is the cached token.
C1_CachedTokenReuse ==
    [][\A r \in Requests :
         (/\ CallsGetValid(r)
          /\ Truthy(accessToken)
          /\ tokenExpiry # None
          /\ tokenExpiry[1] - now > 5 * 60 * 1000)
         => /\ inflight' = inflight
            /\ cnt'[r].fetchCalls = 0
            /\ cnt'[r].idpPosts = 0
            /\ pc'[r] = "upstream"
            /\ Get(outReq'[r][1].headers, "Authorization") = Some(<<"Bearer", accessToken[1]>>)
            /\ UNCHANGED <<accessToken, tokenExpiry>>]_vars

C1_Witness ==
    \E r \in Requests :
        /\ pc[r] = "upstream"
        /\ cnt[r].fetchCalls = 0
        /\ Truthy(accessToken)
        /\ tokenExpiry[1] - now > 5 * 60 * 1000
        /\ Authorization(r) = Some(<<"Bearer", accessToken[1]>>)

\* a fetch is awaited: while its POST is outstanding the handler has not moved on
AwaitsFetch ==
    \A r \in Requests :
        /\ r \in inflight => pc[r] = "token" /\ cnt[r].upstream = 0 /\ outReq[r] = None
        /\ pc[r] = "token" => r \in inflight
        /\ cnt[r].fetchCalls =< 1 /\ cnt[r].idpPosts =< cnt[r].fetchCalls

\* C2 as stated: a call of getValidAccessToken with the token absent or its
\* expiry not more than five minutes ahead (exactly five minutes included)
\* makes exactly one call of fetchDatabricksToken, which completes before
\* getValidAccessToken returns.
C2_RefreshAtOrInsideMargin ==
    /\ []AwaitsFetch
    /\ [][\A r \in Requests :
            (/\ CallsGetValid(r)
             /\ \/ ~Truthy(accessToken)
                \/ tokenExpiry = None
                \/ tokenExpiry[1] - now =< 5 * 60 * 1000)
            => cnt'[r].fetchCalls = 1]_vars

\* C2 amended: the same with the expiry less than five minutes ahead; at
\* exactly five minutes the cached token is returned without a fetch.
C2_RefreshInsideMargin ==
    /\ []AwaitsFetch
    /\ [][\A r \in Requests :
            /\ (/\ CallsGetValid(r)
                /\ \/ ~Truthy(accessToken)
                   \/ tokenExpiry = None
                   \/ tokenExpiry[1] - now < 5 * 60 * 1000)
               => /\ cnt'[r].fetchCalls = 1
                  /\ MissingConfig => pc'[r] = "upstream" /\ cnt'[r].idpPosts = 0
                  /\ ~MissingConfig => pc'[r] = "token" /\ cnt'[r].idpPosts = 1
                                       /\ inflight' = inflight \cup {r}
            /\ (/\ CallsGetValid(r)
                /\ Truthy(accessToken)
                /\ tokenExpiry # None
                /\ tokenExpiry[1] - now = 5 * 60 * 1000)
               => cnt'[r].fetchCalls = 0]_vars

C2_Witness ==
    \E r \in Requests :
        /\ pc[r] = "token"
        /\ r \in inflight
        /\ hist.everOk
        /\ Truthy(accessToken)
        /\ tokenExpiry[1] - now < 5 * 60 * 1000
        /\ tokenExpiry[1] > now

\* C3 as stated: when the fetch made for request r's getValidAccessToken fails,
\* the handler receives no token and the upstream request goes out without an
\* Authorization header, whatever Token State held before.
C3_FailedFetchUnauthenticated ==
    [][\A r \in Requests :
         (FetchCompletes(r) /\ hist'.outcome = "fail")
         => /\ pc'[r] = "upstream"
            /\ Get(outReq'[r][1].headers, "Authorization") = None]_vars

\* C3 amended: when that fetch fails, the handler receives the access token that
\* Token State holds at that moment: none, and the upstream request goes out
\* without an Authorization header, only if no token is cached; a previously
\* fetched token, expired or not, is returned and sent as the Bearer token.  The
\* request proceeds to the upstream either way.
C3_FailedFetchReturnsCached ==
    [][\A r \in Requests :
         (FetchCompletes(r) /\ hist'.outcome = "fail")
         => /\ pc'[r] = "upstream"
            /\ cnt'[r].upstream = 1
            /\ Get(outReq'[r][1].headers, "Authorization") =
                 IF accessToken = None THEN None ELSE Some(<<"Bearer", accessToken[1]>>)]_vars

C3_Witness ==
    \E r \in Requests :
        /\ hist.outcome = "fail"
        /\ hist.task = r
        /\ pc[r] = "upstream"
        /\ tokenExpiry # None
        /\ tokenExpiry[1] < now
        /\ Authorization(r) = Some(<<"Bearer", accessToken[1]>>)

\* C4: a token fetch that fails (network error or non-2xx) leaves accessToken
\* and tokenExpiry exactly as they were, and fetchDatabricksToken returns null.
C4_FailedFetchKeepsTokenState ==
    [][\A t \in Tasks :
         (FetchCompletes(t) /\ hist'.outcome = "fail")
         => /\ accessToken' = accessToken
            /\ tokenExpiry' = tokenExpiry
            /\ hist'.returned = None]_vars

C4_Witness ==
    /\ hist.outcome = "fail"
    /\ hist.everOk
    /\ Truthy(accessToken)
    /\ tokenExpiry # None

\* C5 as stated: accessToken is absent exactly when no fetch has succeeded since
\* the process started or since the last fetch failure, that is, unless the
\* identity call that completed last succeeded.
C5_AbsentUnlessLastFetchSucceeded ==
    (accessToken = None) <=> (hist.outcome # "ok")

\* C5 amended: accessToken is absent exactly when no fetch has succeeded since
\* the process started; a later failure does not clear it.
C5_AbsentUntilFirstSuccess ==
    /\ (accessToken = None) <=> ~hist.everOk
    /\ (tokenExpiry = None) <=> ~hist.everOk
    /\ accessToken # None => Truthy(accessToken)

C5_Witness ==
    /\ hist.everOk
    /\ hist.outcome = "fail"
    /\ hist.task \in Requests
    /\ accessToken # None

UpstreamSucceeded(r) ==
    pc[r] \in {"pump", "done"} /\ up[r] # None
    /\ 200 =< up[r][1].status /\ up[r][1].status =< 299

RangeHeaderPairs ==
    { <<"content-range", "Content-Range">>,
      <<"content-length", "Content-Length">>,
      <<"accept-ranges", "Accept-Ranges">> }

C9_UpstreamFailureIs500 ==
    /\ [](\A r \in Requests : cnt[r].upstream =< 1)
    /\ [][\A r \in Requests :
            (/\ pc[r] = "upstream"
             /\ pc'[r] # "upstream"
             /\ \/ up'[r] = None
                \/ ~(200 =< up'[r][1].status /\ up'[r][1].status =< 299))
            => /\ pc'[r] = "done"
               /\ res'[r].wireStatus = Some(500)
               /\ res'[r].json = Some([error |-> "Failed to fetch PMTiles file"])
               /\ res'[r].written = <<>>
               /\ res'[r].ended
               /\ outReq'[r] = None
               /\ cnt'[r].upstream = 1]_vars

C9_Witness ==
    \E r \in Requests :
        /\ pc[r] = "done"
        /\ up[r] # None
        /\ up[r][1].status = 403
        /\ res[r].wireStatus = Some(500)
        /\ res[r].json = Some([error |-> "Failed to fetch PMTiles file"])
        /\ cnt[r].upstream = 1

\* the slot's request, once answered, came without a url query parameter
AnsweredWithoutUrl(r) ==
    pc[r] = "done" /\ inbound[r] # None /\ inbound[r][1].url = None

\* C10: a GET /proxy/pmtiles without a url parameter is answered 400 with the
\* body {error: "URL parameter required"}; it makes no upstream call and no
\* token fetch and leaves Token State as it is, whatever Token State and the
\* Range and Accept headers are.
C10_MissingUrlIs400 ==
    /\ [](\A r \in Requests :
            AnsweredWithoutUrl(r) =>
                /\ res[r].wireStatus = Some(400)
                /\ res[r].json = Some([error |-> "URL parameter required"])
                /\ res[r].written = <<>>
                /\ res[r].ended
                /\ cnt[r] = [fetchCalls |-> 0, idpPosts |-> 0, upstream |-> 0]
                /\ outReq[r] = None
                /\ up[r] = None
                /\ r \notin inflight)
    /\ [][\A r \in Requests :
            (/\ pc[r] = "idle"
             /\ inbound'[r] # None
             /\ inbound'[r][1].url = None)
            => /\ pc'[r] = "done"
               /\ UNCHANGED <<accessToken, tokenExpiry, inflight, hist>>]_vars

C10_Witness ==
    \E r \in Requests :
        /\ AnsweredWithoutUrl(r)
        /\ inbound[r][1].range = Some("bytes=0-99")
        /\ TruthyList(inbound[r][1].accept)
        /\ Truthy(accessToken)
        /\ tokenExpiry[1] < now
        /\ res[r].wireStatus = Some(400)

\* the last request served by a synchronous handler was one for the given route
Served(route) == aux # None /\ aux[1].route = route

\* C11: OPTIONS /proxy/pmtiles can be served in every reachable state (token
\* absent, present, expired, a refresh in flight) and is always answered 200
\* with Access-Control-Allow-Origin: *; serving it starts no upstream request
\* and no token fetch and leaves Token State and every proxy request in
\* progress as they are.
C11_OptionsAlways200 ==
    /\ [](ENABLED HandleOptions)
    /\ [](Served("OPTIONS /proxy/pmtiles") =>
            /\ aux[1].res.wireStatus = Some(200)
            /\ Get(aux[1].res.headers, "Access-Control-Allow-Origin") = Some("*")
            /\ aux[1].res.ended)
    /\ [][(~Served("OPTIONS /proxy/pmtiles") /\ Served("OPTIONS /proxy/pmtiles")')
          => UNCHANGED <<accessToken, tokenExpiry, inflight, hist,
                         pc, inbound, outReq, up, nread, res, cnt>>]_vars

C11_Witness ==
    /\ Served("OPTIONS /proxy/pmtiles")
    /\ aux[1].res.wireStatus = Some(200)
    /\ \E r \in Requests : r \in inflight
    /\ Truthy(accessToken)
    /\ tokenExpiry # None
    /\ tokenExpiry[1] < now

\* the step in which request r's handler starts on an inbound request
Arrives(r) == pc[r] = "idle" /\ pc'[r] # "idle"

\* the Accept header names application/json
AcceptsJson(inb) ==
    inb.accept # None /\ \E i \in DOMAIN inb.accept[1] : inb.accept[1][i] = "application/json"

\* the answer given to a metadata probe for the url, with nothing else done
ProbeAnswered(r, url) ==
    /\ pc'[r] = "done"
    /\ res'[r].wireStatus = Some(200)
    /\ res'[r].json = Some([type |-> "vector", tiles |-> <<url>>, minzoom |-> 0, maxzoom |-> 14])
    /\ res'[r].written = <<>>
    /\ res'[r].ended
    /\ outReq'[r] = None
    /\ cnt'[r] = [fetchCalls |-> 0, idpPosts |-> 0, upstream |-> 0]
    /\ UNCHANGED <<accessToken, tokenExpiry, inflight, hist>>

\* the request went on to getValidAccessToken and the byte-range fetch
RangeFetchStarted(r) ==
    /\ pc'[r] \in {"token", "upstream"}
    /\ res'[r].json = None
    /\ ~res'[r].headersSent
    /\ pc'[r] = "token" => r \in inflight'
    /\ pc'[r] = "upstream" => outReq'[r] # None /\ cnt'[r].upstream = 1

IssuesUpstream(r) == pc[r] # "upstream" /\ pc'[r] = "upstream"

\* C13: the upstream request of a byte-range fetch is issued only once
\* getValidAccessToken has returned (no token fetch of the request is still
\* outstanding), in the same run of the handler; it carries
\* Authorization: Bearer <token> exactly when getValidAccessToken returned a
\* token (the accessToken held at that moment), with that value; when no token
\* is returned the upstream request is still issued, without an Authorization
\* header, and nothing has been answered to the caller.
C13_AuthorizationIffToken ==
    /\ [](\A r \in Requests :
            /\ outReq[r] # None => pc[r] = "upstream" /\ r \notin inflight
            /\ r \in inflight => outReq[r] = None /\ cnt[r].upstream = 0)
    /\ [][\A r \in Requests :
            /\ (FetchCompletes(r) \/ (CallsGetValid(r) /\ pc'[r] # "token"))
               => IssuesUpstream(r)
            /\ IssuesUpstream(r) =>
                 /\ r \notin inflight'
                 /\ outReq'[r] # None
                 /\ cnt'[r].upstream = 1
                 /\ ~res'[r].headersSent
                 /\ Get(outReq'[r][1].headers, "Authorization") =
                      IF accessToken' = None THEN None
                      ELSE Some(<<"Bearer", accessToken'[1]>>)]_vars

C13_Witness ==
    \E r \in Requests :
        /\ ~MissingConfig
        /\ hist.outcome = "fail"
        /\ hist.task = r
        /\ accessToken = None
        /\ pc[r] = "upstream"
        /\ cnt[r].upstream = 1
        /\ cnt[r].idpPosts = 1
        /\ Authorization(r) = None

\* one of the three credential variables is absent (unset, or set to nothing)
CredentialAbsent ==
    \E f \in {"clientId", "clientSecret", "host"} : config[f] = None \/ config[f] = Some("")

\* C14: with clientId, clientSecret or host absent the Token Manager is
\* disabled for good: the startup call has returned without a POST, no call of
\* fetchDatabricksToken or getValidAccessToken ever contacts the identity
\* endpoint, each returns no token, Token State stays empty, and every proxy
\* request that reaches getValidAccessToken goes on to the upstream in the same
\* run, without an Authorization header.
C14_MissingConfigDisables ==
    /\ [](CredentialAbsent =>
            /\ accessToken = None
            /\ tokenExpiry = None
            /\ inflight = {}
            /\ hist = [outcome |-> "none", task |-> "none", returned |-> None, everOk |-> FALSE]
            /\ pc["startup"] = "done"
            /\ \A r \in Requests :
                 /\ cnt[r].idpPosts = 0
                 /\ pc[r] # "token"
                 /\ outReq[r] # None => "Authorization" \notin DOMAIN outReq[r][1].headers)
    /\ [][\A r \in Requests :
            (CredentialAbsent /\ Arrives(r) /\ pc'[r] # "done")
            => /\ pc'[r] = "upstream"
               /\ cnt'[r] = [fetchCalls |-> 1, idpPosts |-> 0, upstream |-> 1]
               /\ outReq'[r] # None]_vars

C14_Witness ==
    \E r \in Requests :
        /\ config.clientId = None
        /\ config.host # None
        /\ pc[r] = "done"
        /\ up[r] # None
        /\ up[r][1].status = 206
        /\ res[r].wireStatus = Some(206)
        /\ res[r].ended
        /\ cnt[r] = [fetchCalls |-> 1, idpPosts |-> 0, upstream |-> 1]
        /\ now > 0

\* C15: the refresh check takes no account of fetches already outstanding: a
\* request that finds the token absent or inside the five-minute window issues
\* its own fetch also while the startup fetch or another request's fetch is in
\* flight, so two fetches can be in flight at once; each successful fetch
\* writes Token State when it completes, so Token State holds the values of
\* the fetch that completed last among those that succeeded.
C15_ConcurrentFetchesLastWins ==
    /\ [](hist.outcome = "ok" =>
            /\ accessToken = hist.returned
            /\ tokenExpiry # None
            /\ tokenExpiry[1] =< now + 3600 * 1000)
    /\ [][\A r \in Requests :
            /\ (/\ CallsGetValid(r)
                /\ ~CredentialAbsent
                /\ \/ accessToken = None
                   \/ tokenExpiry = None
                   \/ tokenExpiry[1] - now < 5 * 60 * 1000)
               => /\ inflight' = inflight \cup {r}
                  /\ cnt'[r].idpPosts = 1
            /\ (\A t \in Tasks : FetchCompletes(t) /\ hist'.outcome = "ok"
                  => /\ accessToken' = hist'.returned
                     /\ tokenExpiry'[1] \in {now + 450 * 1000, now + 3600 * 1000})]_vars

\* two requests' fetches in flight at once, both issued with a token cached
\* that was inside the five-minute window
C15_Witness ==
    /\ {"r1", "r2"} \subseteq inflight
    /\ hist.everOk
    /\ Truthy(accessToken)
    /\ tokenExpiry[1] - now < 5 * 60 * 1000
    /\ cnt["r1"].idpPosts = 1
    /\ cnt["r2"].idpPosts = 1

\* the step in which request r's response is completed (the 400, the
\* descriptor, the 500 of a failed upstream fetch, the end of the stream or
\* its failure)
Completes(r) == pc[r] # "done" /\ pc'[r] = "done"

\* everything that belongs to request q
Slot(q) == <<pc[q], inbound[q], outReq[q], up[q], nread[q], res[q], cnt[q]>>

\* C16: accessToken and tokenExpiry change only in the step in which a token
\* fetch completes successfully; the step that completes a proxy request
\* (its 400, descriptor, upstream failure, streaming failure or end) and the
\* OPTIONS, /api/config and /api/health handlers leave them as they are; and
\* no step of one request, a failing one included, changes the response or the
\* progress of another request.
C16_TokenStateWrittenOnlyByFetch ==
    /\ [][(accessToken' # accessToken \/ tokenExpiry' # tokenExpiry)
          => \E t \in Tasks : /\ FetchCompletes(t)
                              /\ hist'.outcome = "ok"
                              /\ hist'.task = t
                              /\ accessToken' = hist'.returned]_vars
    /\ [][\A r \in Requests :
            (Completes(r) \/ res'[r] # res[r])
            => /\ UNCHANGED <<accessToken, tokenExpiry>>
               /\ \A q \in Requests \ {r} : Slot(q)' = Slot(q)]_vars
    /\ [][aux' # aux
          => UNCHANGED <<accessToken, tokenExpiry, inflight, hist,
                         pc, inbound, outReq, up, nread, res, cnt>>]_vars

\* one request has failed with a 500 while the other is in the middle of its
\* stream, with a token cached and the synchronous routes served
C16_Witness ==
    /\ pc["r1"] = "done"
    /\ res["r1"].wireStatus = Some(500)
    /\ pc["r2"] = "pump"
    /\ res["r2"].written # <<>>
    /\ res["r2"].wireStatus = Some(206)
    /\ Truthy(accessToken)
    /\ hist.outcome = "fail"
    /\ Served("GET /api/health")

\* what the identity endpoint said about the lifetime, in seconds: its
\* expires_in, or 3600 when the answer has no such field
StatedLifetime(data) ==
    IF "expires_in" \in DOMAIN data THEN data.expires_in ELSE 3600

\* C17: when a token fetch succeeds with the answer data, accessToken becomes
\* data.access_token and tokenExpiry becomes now + expires_in seconds for
\* whatever expires_in the answer carries, and now + 3600 seconds only when the
\* answer carries none.
C17_ExpiryFromServerValue ==
    [][\A t \in Tasks, data \in TokenData :
         TokenFetchSucceeds(t, data)
         => /\ accessToken' = Some(data.access_token)
            /\ tokenExpiry' = Some(now + StatedLifetime(data) * 1000)]_vars

\* the pump's catch has run for request r: a read of the body failed
StreamFailed(r) == UpstreamSucceeded(r) /\ pc[r] = "done" /\ res[r].statusCode = 500

\* the first n chunks of a body
Prefix(body, n) == [i \in 1..n |-> body[i]]

\* what the claim says of the bytes: what has been written to the caller is
\* the chunks read so far, in the upstream's order; a stream read to its end
\* is ended after the last chunk
StreamedInOrder(r) ==
    /\ res[r].written = Prefix(up[r][1].body, nread[r])
    /\ nread[r] =< Len(up[r][1].body)
    /\ pc[r] = "pump" => ~res[r].ended
    /\ (pc[r] = "done" /\ ~StreamFailed(r)) =>
          /\ res[r].ended
          /\ res[r].written = up[r][1].body

\* C18: after a successful upstream response the bytes written to the caller
\* are the upstream's chunks in order, written one by one as they are read; a
\* body read to its end is followed by the end of the response; a read that
\* fails ends the response with status 500 delivered to the caller, what was
\* written before being a prefix of the upstream body.
C18_StreamedThen500OnFailure ==
    \A r \in Requests :
        UpstreamSucceeded(r) =>
            /\ StreamedInOrder(r)
            /\ StreamFailed(r) => /\ res[r].ended
                                  /\ res[r].wireStatus = Some(500)

\* C19: when the refresh fetch made for a request fails while a previously
\* fetched token is cached, getValidAccessToken returns that token, expired or
\* not, and the handler sends it upstream as the Bearer token in the same run;
\* the failure is not reported to the caller and the cached token is kept.
C19_StaleTokenReuse ==
    [][\A r \in Requests :
         (/\ FetchCompletes(r)
          /\ hist'.outcome = "fail"
          /\ accessToken # None)
         => /\ IssuesUpstream(r)
            /\ Get(outReq'[r][1].headers, "Authorization") = Some(<<"Bearer", accessToken[1]>>)
            /\ ~res'[r].headersSent
            /\ res'[r].json = None
            /\ UNCHANGED <<accessToken, tokenExpiry>>]_vars

\* the token sent was "tokB", whose expiry had passed when the refresh failed
C19_Witness ==
    \E r \in Requests :
        /\ hist.outcome = "fail"
        /\ hist.task = r
        /\ pc[r] = "upstream"
        /\ cnt[r].idpPosts = 1
        /\ accessToken = Some("tokB")
        /\ tokenExpiry # None
        /\ now > tokenExpiry[1]
        /\ Get(outReq[r][1].headers, "Authorization") = Some(<<"Bearer", "tokB">>)

\* the four ways a GET /proxy/pmtiles response can have been completed
Outcome400(r) ==
    /\ res[r].wireStatus = Some(400)
    /\ res[r].json = Some([error |-> "URL parameter required"])
    /\ res[r].written = <<>>

OutcomeDescriptor(r) ==
    /\ res[r].wireStatus = Some(200)
    /\ res[r].json # None
    /\ DOMAIN res[r].json[1] = {"type", "tiles", "minzoom", "maxzoom"}
    /\ res[r].written = <<>>

Outcome500(r) ==
    /\ res[r].wireStatus = Some(500)
    /\ res[r].json = Some([error |-> "Failed to fetch PMTiles file"])
    /\ res[r].written = <<>>

OutcomeStream(r) ==
    /\ res[r].json = None
    /\ UpstreamSucceeded(r)
    /\ res[r].written = Prefix(up[r][1].body, nread[r])

Outcomes(r) ==
    {o \in 1..4 : CASE o = 1 -> Outcome400(r)
                    [] o = 2 -> OutcomeDescriptor(r)
                    [] o = 3 -> Outcome500(r)
                    [] OTHER -> OutcomeStream(r)}

\* C20: a GET /proxy/pmtiles request is completed in exactly one of four ways:
\* the 400 JSON, the descriptor, the 500 JSON, or a streamed body; the response
\* is ended exactly once and not touched afterwards, and a JSON body is never
\* sent on a response to which body bytes have been written.
C20_ExactlyOneOutcome ==
    /\ [](\A r \in Requests :
            /\ res[r].ends =< 1
            /\ res[r].ended <=> pc[r] = "done"
            /\ res[r].ended <=> res[r].ends = 1
            /\ pc[r] = "done" => Cardinality(Outcomes(r)) = 1
            /\ res[r].written # <<>> => res[r].json = None
            /\ res[r].json # None => res[r].ended)
    /\ [][\A r \in Requests :
            res[r].ended => \/ res'[r] = res[r]
                            \/ pc'[r] = "idle" /\ ~res'[r].headersSent]_vars

\* a stream that failed after bytes were written: ended once, no JSON body
C20_Witness ==
    \E r \in Requests :
        /\ pc[r] = "done"
        /\ StreamFailed(r)
        /\ res[r].written # <<>>
        /\ res[r].ends = 1
        /\ res[r].json = None
        /\ Outcomes(r) = {4}

\* request r has been received and its response is not complete
Pending(r) == pc[r] \in {"token", "upstream", "pump"}

\* C21: a request whose outbound calls all settle is eventually answered
\* completely, whatever becomes of the other request's calls; this holds of
\* "r2", whose calls settle, and of "r1" in the behaviours in which its calls
\* settle too.  A pending request leaves the await it is at only when the
\* awaited call settles: no timeout and no cancellation moves it, so a call
\* that hangs keeps its own request pending, and it keeps no other request
\* from completing.
C21_CompletesWhenCallsSettle ==
    /\ Pending("r2") ~> pc["r2"] = "done"
    /\ WF_vars(Resolve("r1")) => (Pending("r1") ~> pc["r1"] = "done")
    /\ [][\A r \in Requests :
            (Pending(r) /\ Slot(r)' # Slot(r)) => <<Resolve(r)>>_vars]_vars

\* the second request has been streamed to its end while the first is still
\* waiting for its upstream, after the clock has run to its end
C21_Witness ==
    /\ pc["r1"] = "upstream"
    /\ pc["r2"] = "done"
    /\ res["r2"].ended
    /\ res["r2"].written # <<>>
    /\ now = MaxTicks * TickMs

====
